---- MODULE Spec2Model ----
(***************************************************************************)
(* Model of createCgoFlags (qamel/generator/gen-cgo.go): the makefile is   *)
(* scanned line by line into mapCompiler, every entry is rewritten once by *)
(* the "convert variable in compiler flags" loop, and the cgo directives   *)
(* are rendered from five fixed keys.                                      *)
(*                                                                         *)
(* A Go string is modelled as a sequence of one-character strings, so that *)
(* the regular expressions, strings.Replace and strings.TrimSpace are      *)
(* computed character by character, as the library computes them.          *)
(***************************************************************************)
EXTENDS Integers, Sequences, FiniteSets, TLC

(***************************************************************************)
(* Strings                                                                 *)
(***************************************************************************)

\* The class \s of Go's regexp ([\t\n\f\r ]); strings.TrimSpace trims the
\* same characters on ASCII input (plus \v, which no input here contains).
Whitespace == {" ", "\t", "\n", "\f", "\r"}

IsSpace(c) == c \in Whitespace

Max(S) == CHOOSE x \in S : \A y \in S : y <= x

Min(S) == CHOOSE x \in S : \A y \in S : x <= y

\* p occurs in s at index i.
HasPrefixAt(s, i, p) ==
    /\ i >= 1
    /\ i + Len(p) - 1 <= Len(s)
    /\ SubSeq(s, i, i + Len(p) - 1) = p

\* strings.Contains(s, p)
Contains(s, p) == \E i \in 1..(Len(s) + 1) : HasPrefixAt(s, i, p)

RECURSIVE ReplaceFrom(_, _, _, _)
ReplaceFrom(s, old, new, i) ==
    IF i > Len(s) THEN <<>>
    ELSE IF HasPrefixAt(s, i, old)
         THEN new \o ReplaceFrom(s, old, new, i + Len(old))
         ELSE <<s[i]>> \o ReplaceFrom(s, old, new, i + 1)

RECURSIVE InsertBeforeEach(_, _, _)
InsertBeforeEach(s, new, i) ==
    IF i > Len(s) THEN new
    ELSE new \o <<s[i]>> \o InsertBeforeEach(s, new, i + 1)

\* Faulty variant: only the first occurrence is replaced
\* (strings.Replace with n = 1).
ReplaceFirstOnly(s, old, new) ==
    LET at == {i \in 1..Len(s) : HasPrefixAt(s, i, old)}
    IN IF old = <<>> \/ at = {} THEN s
       ELSE SubSeq(s, 1, Min(at) - 1) \o new
                \o SubSeq(s, Min(at) + Len(old), Len(s))

\* strings.Replace(s, old, new, -1): the non-overlapping occurrences of old,
\* found left to right, each replaced by new; an empty old matches before
\* every character and at the end.
Replace(s, old, new) ==
    IF old = <<>> THEN InsertBeforeEach(s, new, 1)
    ELSE ReplaceFrom(s, old, new, 1)

\* strings.TrimSpace(s)
TrimSpace(s) ==
    LET keep == {i \in 1..Len(s) : ~IsSpace(s[i])}
    IN IF keep = {} THEN <<>> ELSE SubSeq(s, Min(keep), Max(keep))

(***************************************************************************)
(* rxCompilerVar = \$\((\S+)\)                                             *)
(***************************************************************************)

\* The last index of the run of non-whitespace characters that starts at i
\* (i - 1 when there is none).
RECURSIVE RunEnd(_, _)
RunEnd(s, i) ==
    IF i > Len(s) \/ IsSpace(s[i]) THEN i - 1 ELSE RunEnd(s, i + 1)

\* The end of the match of rxCompilerVar that starts at i, 0 when none starts
\* there: "$(" and then \S+, which is greedy and takes the whole run of
\* non-whitespace characters (")", "$" and "(" included) before it gives
\* back down to the last ")" of the run.
VarMatchEnd(s, i) ==
    IF ~HasPrefixAt(s, i, <<"$", "(">>) THEN 0
    ELSE LET close == {q \in (i + 3)..RunEnd(s, i + 2) : s[q] = ")"}
         IN IF close = {} THEN 0 ELSE Max(close)

\* rxCompilerVar.FindAllString(s, -1): the successive leftmost matches.
RECURSIVE FindAllFrom(_, _)
FindAllFrom(s, i) ==
    IF i > Len(s) THEN <<>>
    ELSE LET q == VarMatchEnd(s, i)
         IN IF q > 0 THEN <<SubSeq(s, i, q)>> \o FindAllFrom(s, q + 1)
            ELSE FindAllFrom(s, i + 1)

FindAllString(s) == FindAllFrom(s, 1)

\* rxCompilerVar.ReplaceAllString(s, "$1"): every match replaced by its
\* first group, the text between matches copied.
RECURSIVE ReplaceAllFrom(_, _)
ReplaceAllFrom(s, i) ==
    IF i > Len(s) THEN <<>>
    ELSE LET q == VarMatchEnd(s, i)
         IN IF q > 0 THEN SubSeq(s, i + 2, q - 1) \o ReplaceAllFrom(s, q + 1)
            ELSE <<s[i]>> \o ReplaceAllFrom(s, i + 1)

ReplaceAllString(s) == ReplaceAllFrom(s, 1)

(***************************************************************************)
(* rxMakefile = ^(\S+)\s*=\s*(.+)$                                         *)
(***************************************************************************)

\* The index of the first non-whitespace character at or after i
\* (Len(s) + 1 when there is none).
RECURSIVE SkipSpace(_, _)
SkipSpace(s, i) ==
    IF i > Len(s) \/ ~IsSpace(s[i]) THEN i ELSE SkipSpace(s, i + 1)

\* Where group 2 starts when group 1 is text[1..n], 0 when the rest does not
\* match: \s* runs up to the "=", the second \s* is greedy but leaves (.+) at
\* least one character, and "." matches no line feed.
ValueStart(text, n) ==
    LET eq == SkipSpace(text, n + 1)
    IN IF eq > Len(text) \/ text[eq] # "=" THEN 0
       ELSE LET starts == {c \in (eq + 1)..Min({SkipSpace(text, eq + 1), Len(text)}) :
                              \A j \in c..Len(text) : text[j] # "\n"}
            IN IF starts = {} THEN 0 ELSE Max(starts)

\* Faulty variant: the pattern without its second \s*
\* (group 2 starts right after the "=").
FindStringSubmatchNoSkip(text) ==
    LET ns == {n \in 1..RunEnd(text, 1) :
                  LET eq == SkipSpace(text, n + 1)
                  IN eq < Len(text) /\ text[eq] = "="}
    IN IF ns = {} THEN <<>>
       ELSE LET n == Max(ns)
            IN <<text, SubSeq(text, 1, n),
                 SubSeq(text, SkipSpace(text, n + 1) + 1, Len(text))>>

\* rxMakefile.FindStringSubmatch(text): <<whole match, group 1, group 2>>, or
\* the empty sequence (nil) when the line does not match.  \S+ is greedy: the
\* longest key for which the rest matches is taken.
FindStringSubmatch(text) ==
    LET ns == {n \in 1..RunEnd(text, 1) : ValueStart(text, n) > 0}
    IN IF ns = {} THEN <<>>
       ELSE LET n == Max(ns)
            IN <<text, SubSeq(text, 1, n),
                 SubSeq(text, ValueStart(text, n), Len(text))>>

(***************************************************************************)
(* The map and the three passes of createCgoFlags                          *)
(***************************************************************************)

\* The empty map (map[string]string{}).
EmptyMap == <<>>

\* mapCompiler[k] read: a key that is absent reads as the empty string, and
\* the read adds nothing to the map.
MapGet(m, k) == IF k \in DOMAIN m THEN m[k] ELSE <<>>

\* Faulty variant: the first value of a key is kept.
MapSetFirstWins(m, k, v) ==
    [x \in DOMAIN m \cup {k} |-> IF x \in DOMAIN m THEN m[x] ELSE v]

\* mapCompiler[k] = v
MapSet(m, k, v) ==
    [x \in DOMAIN m \cup {k} |-> IF x = k THEN v ELSE m[x]]

BigObjFlag ==
    <<" ", "-", "W", "a", ",", "-", "m", "b", "i", "g", "-", "o", "b", "j", " ">>

\* The inner loop over variables: each match found in the value the key had
\* when its processing began is replaced, in match order and at every
\* occurrence in the text built so far, by what the map holds for its name.
RECURSIVE SubstituteFrom(_, _, _, _)
SubstituteFrom(m, flagValue, variables, i) ==
    IF i > Len(variables) THEN flagValue
    ELSE LET variable == variables[i]
             variableKey == ReplaceAllString(variable)
             variableValue == MapGet(m, variableKey)
         IN SubstituteFrom(m, Replace(flagValue, variable, variableValue),
                           variables, i + 1)

\* The body of the loop over mapCompiler for one flagKey: the value stored
\* back for it.
ResolveValue(m, flagKey) ==
    LET flagValue == m[flagKey]
        variables == FindAllString(flagValue)
        substituted == SubstituteFrom(m, flagValue, variables, 1)
    IN TrimSpace(Replace(substituted, BigObjFlag, <<" ">>))

KeyCFLAGS == <<"C", "F", "L", "A", "G", "S">>

KeyCXXFLAGS == <<"C", "X", "X", "F", "L", "A", "G", "S">>

KeyINCPATH == <<"I", "N", "C", "P", "A", "T", "H">>

KeyLFLAGS == <<"L", "F", "L", "A", "G", "S">>

KeyLIBS == <<"L", "I", "B", "S">>

DirCFLAGS ==
    <<"#", "c", "g", "o", " ", "C", "F", "L", "A", "G", "S", ":", " ">>

DirCXXFLAGS ==
    <<"#", "c", "g", "o", " ", "C", "X", "X", "F", "L", "A", "G", "S", ":", " ">>

DirLDFLAGS ==
    <<"#", "c", "g", "o", " ", "L", "D", "F", "L", "A", "G", "S", ":", " ">>

NoWarn ==
    <<"-", "W", "n", "o", "-", "u", "n", "u", "s", "e", "d", "-",
      "p", "a", "r", "a", "m", "e", "t", "e", "r", " ",
      "-", "W", "n", "o", "-", "u", "n", "u", "s", "e", "d", "-",
      "v", "a", "r", "i", "a", "b", "l", "e", " ",
      "-", "W", "n", "o", "-", "r", "e", "t", "u", "r", "n", "-",
      "t", "y", "p", "e">>

NL == <<"\n">>

\* Faulty variant: the INCPATH and LFLAGS lines swapped.
RenderFlagsSwapped(m) ==
    DirCFLAGS \o MapGet(m, KeyCFLAGS) \o NL
        \o DirCXXFLAGS \o MapGet(m, KeyCXXFLAGS) \o NL
        \o DirLDFLAGS \o MapGet(m, KeyLFLAGS) \o NL
        \o DirCXXFLAGS \o MapGet(m, KeyINCPATH) \o NL
        \o DirLDFLAGS \o MapGet(m, KeyLIBS) \o NL
        \o DirCFLAGS \o NoWarn \o NL
        \o DirCXXFLAGS \o NoWarn

\* The text of cgoFlags: five Sprintf("#cgo ...: %s\n", mapCompiler[...]),
\* a Sprintln and a last Sprint without a line feed.
RenderFlags(m) ==
    DirCFLAGS \o MapGet(m, KeyCFLAGS) \o NL
        \o DirCXXFLAGS \o MapGet(m, KeyCXXFLAGS) \o NL
        \o DirCXXFLAGS \o MapGet(m, KeyINCPATH) \o NL
        \o DirLDFLAGS \o MapGet(m, KeyLFLAGS) \o NL
        \o DirLDFLAGS \o MapGet(m, KeyLIBS) \o NL
        \o DirCFLAGS \o NoWarn \o NL
        \o DirCXXFLAGS \o NoWarn

(***************************************************************************)
(* The makefiles the model is run on                                       *)
(***************************************************************************)

MaxLines == 3

MaxWords == 2

MaxTokens == 4

MaxMissingWords == 4

MaxFlags == 4

RECURSIVE Concat(_)
Concat(ws) == IF ws = <<>> THEN <<>> ELSE Head(ws) \o Concat(Tail(ws))

RECURSIVE JoinSpace(_)
JoinSpace(ws) ==
    IF Len(ws) <= 1 THEN Concat(ws)
    ELSE Head(ws) \o <<" ">> \o JoinSpace(Tail(ws))

\* The sequences of 1..n elements of S.
SeqsUpTo(S, n) == UNION {[1..k -> S] : k \in 1..n}

Ref(name) == <<"$", "(">> \o name \o <<")">>

Line(key, value) == key \o <<" ", "=", " ">> \o value

KeyA == <<"A">>

KeyB == <<"B">>

KeyC == <<"C">>

NameY == <<"Y">>

NameZ == <<"Z">>

Junk == <<"n", "o", "t", " ", "a", " ", "k", "v", " ", "l", "i", "n", "e">>

WordTail == <<"t", "a", "i", "l">>

\* Lines of every shape the scanner meets: spaces or none around "=", spaces
\* after the value, a key written twice, no key, no value, a second "=".
ParseLines ==
    { Line(KeyA, <<"1">>),
      Line(KeyA, <<"2">>),
      Line(KeyA, <<"1", " ", " ">>),
      KeyB \o <<"=">> \o <<"2">>,
      KeyB \o <<" ", " ", "=", " ", " ">> \o Ref(KeyA),
      Junk,
      <<>>,
      <<" ">> \o Line(KeyA, <<"1">>),
      KeyA \o <<" ", "=">>,
      KeyA \o <<" ", "=", " ", " ">>,
      KeyA \o <<"=", "=", "1">> }

ParseInputs == UNION {[1..n -> ParseLines] : n \in 0..MaxLines}

\* Tables over A, B and C whose values refer to each other, to themselves
\* and to keys that are absent.
ResolveWords == {Ref(KeyA), Ref(KeyB), Ref(KeyC), <<"x">>, <<" ">>, <<"/">>}

ValuesOfB ==
    {<<>>, Ref(KeyA), Ref(KeyC), <<"y">>, <<"y", " ">>, Ref(KeyC) \o <<" ", "y">>}

ValuesOfC == {<<>>, Ref(KeyA), <<"x">>}

\* The line of a key, none when its value is empty (the key is absent).
LineIf(key, value) == IF value = <<>> THEN <<>> ELSE <<Line(key, value)>>

ResolveInputs ==
    { <<Line(KeyA, Concat(ws))>> \o LineIf(KeyB, b) \o LineIf(KeyC, c) :
          ws \in SeqsUpTo(ResolveWords, MaxWords),
          b \in ValuesOfB, c \in ValuesOfC }

\* Tables without a circle, the value of A made of words and references that
\* single spaces set apart.
Tokens == {Ref(KeyB), Ref(KeyC), <<"x">>}

SeparatedInputs ==
    { <<Line(KeyA, JoinSpace(ws))>> \o LineIf(KeyB, b) \o LineIf(KeyC, c) :
          ws \in SeqsUpTo(Tokens, MaxTokens),
          b \in ValuesOfB \ {Ref(KeyA)}, c \in ValuesOfC \ {Ref(KeyA)} }

\* One key whose value refers to keys that are absent.
MissingWords == {Ref(NameY), Ref(NameZ), <<" ">>, WordTail}

MissingInputs ==
    { <<Line(KeyA, Concat(ws))>> : ws \in SeqsUpTo(MissingWords, MaxMissingWords) }

FlagO2 == <<"-", "O", "2">>

FlagWall == <<"-", "W", "a", "l", "l">>

FlagBigObj == <<"-", "W", "a", ",", "-", "m", "b", "i", "g", "-", "o", "b", "j">>

ValStd == <<"-", "s", "t", "d", "=", "c", "+", "+", "1", "1">>

ValInc ==
    <<"-", "I", "/", "u", "s", "r", "/", "i", "n", "c", "l", "u", "d", "e",
      "/", "q", "t">>

ValLib == <<"-", "L", "/", "u", "s", "r", "/", "l", "i", "b">>

ValQt == <<"-", "l", "Q", "t", "5", "C", "o", "r", "e">>

NameEXTRA == <<"E", "X", "T", "R", "A">>

\* CFLAGS lines of space-separated flags.
Flags == {FlagO2, FlagWall, FlagBigObj}

FlagInputs ==
    { <<Line(KeyCFLAGS, JoinSpace(fs))>> : fs \in SeqsUpTo(Flags, MaxFlags) }

\* The five lines a qmake makefile gives the directives, each present or not.
RenderInputs ==
    { LineIf(KeyCFLAGS, c) \o LineIf(KeyCXXFLAGS, x) \o LineIf(KeyINCPATH, i)
          \o LineIf(KeyLFLAGS, l) \o LineIf(KeyLIBS, b) :
          c \in {<<>>, FlagO2}, x \in {<<>>, ValStd}, i \in {<<>>, ValInc},
          l \in {<<>>, ValLib},
          b \in {<<>>, ValQt \o <<" ">> \o Ref(NameEXTRA)} }

Inputs ==
    ParseInputs \cup ResolveInputs \cup SeparatedInputs \cup MissingInputs
        \cup FlagInputs \cup RenderInputs

(***************************************************************************)
(* The state machine                                                       *)
(***************************************************************************)

VARIABLES
    lines,        \* the makefile, as bufio.Scanner splits it
    pc,           \* "scan", "resolve" or "done"
    scanned,      \* the number of lines the scanner has returned
    mapCompiler,  \* the map
    visited,      \* the keys the range loop has visited, in its order
    parsed,       \* history: mapCompiler as the scan left it
    cgoFlags      \* the returned text

vars == <<lines, pc, scanned, mapCompiler, visited, parsed, cgoFlags>>

Range(s) == {s[i] : i \in 1..Len(s)}

Init ==
    /\ lines \in Inputs
    /\ pc = "scan"
    /\ scanned = 0
    /\ mapCompiler = EmptyMap
    /\ visited = <<>>
    /\ parsed = EmptyMap
    /\ cgoFlags = <<>>

\* scanner.Scan() returns a line that rxMakefile matches: it is stored.
ScanMatch ==
    /\ pc = "scan"
    /\ scanned < Len(lines)
    /\ LET text == lines[scanned + 1]
           parts == FindStringSubmatch(text)
       IN /\ Len(parts) = 3
          /\ mapCompiler' = MapSet(mapCompiler, parts[2], parts[3])
    /\ scanned' = scanned + 1
    /\ UNCHANGED <<lines, pc, visited, parsed, cgoFlags>>

\* scanner.Scan() returns a line that rxMakefile does not match: continue.
ScanSkip ==
    /\ pc = "scan"
    /\ scanned < Len(lines)
    /\ Len(FindStringSubmatch(lines[scanned + 1])) # 3
    /\ scanned' = scanned + 1
    /\ UNCHANGED <<lines, pc, mapCompiler, visited, parsed, cgoFlags>>

\* scanner.Scan() returns false at the end of the file.
ScanEnd ==
    /\ pc = "scan"
    /\ scanned = Len(lines)
    /\ pc' = "resolve"
    /\ parsed' = mapCompiler
    /\ UNCHANGED <<lines, scanned, mapCompiler, visited, cgoFlags>>

\* Faulty variant: the loop forgets that it visited the key.
MarkVisitedForgets(flagKey) == visited

\* The range loop moves past flagKey.
MarkVisited(flagKey) == Append(visited, flagKey)

\* One iteration of "for flagKey, flagValue := range mapCompiler": Go visits
\* the keys in an order it does not specify, each key once (the body adds and
\* deletes no key).
ResolveKey ==
    /\ pc = "resolve"
    /\ \E flagKey \in DOMAIN mapCompiler \ Range(visited) :
          /\ mapCompiler' = MapSet(mapCompiler, flagKey,
                                   ResolveValue(mapCompiler, flagKey))
          /\ visited' = MarkVisited(flagKey)
    /\ UNCHANGED <<lines, pc, scanned, parsed, cgoFlags>>

\* The range loop is over: the directives are rendered and returned.
Render ==
    /\ pc = "resolve"
    /\ DOMAIN mapCompiler \subseteq Range(visited)
    /\ cgoFlags' = RenderFlags(mapCompiler)
    /\ pc' = "done"
    /\ UNCHANGED <<lines, scanned, mapCompiler, visited, parsed>>

Next == ScanMatch \/ ScanSkip \/ ScanEnd \/ ResolveKey \/ Render

Spec == Init /\ [][Next]_vars

(***************************************************************************)
(* What the properties speak of                                            *)
(***************************************************************************)

\* The pattern ^(\S+)\s*=\s*(.+)$ read as a decomposition of the line: group
\* 1 is line[1..a], the "=" is at b and group 2 is line[c..].
KeyEnds(line) ==
    {a \in 1..Len(line) : \A i \in 1..a : ~IsSpace(line[i])}

EqAfter(line, a) ==
    {b \in (a + 1)..Len(line) :
        line[b] = "=" /\ \A i \in (a + 1)..(b - 1) : IsSpace(line[i])}

ValueStarts(line, b) ==
    {c \in (b + 1)..Len(line) :
        /\ \A i \in (b + 1)..(c - 1) : IsSpace(line[i])
        /\ \A i \in c..Len(line) : line[i] # "\n"}

\* The ends of group 1 over all the decompositions of the line.
SplitKeys(line) ==
    {a \in KeyEnds(line) :
        \E b \in EqAfter(line, a) : ValueStarts(line, b) # {}}

Matches(line) == SplitKeys(line) # {}

\* Both \S+ and \s* are greedy: group 1 is the longest key a decomposition
\* has, group 2 the shortest value one has with that key.
LineKey(line) == SubSeq(line, 1, Max(SplitKeys(line)))

LineValue(line) ==
    LET a == Max(SplitKeys(line))
        starts == UNION {ValueStarts(line, b) : b \in EqAfter(line, a)}
    IN SubSeq(line, Max(starts), Len(line))

\* The scanned lines that match.
Matching == {i \in 1..scanned : Matches(lines[i])}

NoEdgeSpace(s) == s = <<>> \/ (~IsSpace(s[1]) /\ ~IsSpace(s[Len(s)]))

HasSuffix(s, p) == Len(p) <= Len(s) /\ SubSeq(s, Len(s) - Len(p) + 1, Len(s)) = p

\* The position of a visited key in the order of the range loop.
Pos(k) == CHOOSE i \in 1..Len(visited) : visited[i] = k

\* The map as it was when the loop reached the visited key k: the keys
\* visited before k hold their final value, the others their parsed value.
TableAt(k) ==
    [j \in DOMAIN parsed |->
        IF \E i \in 1..(Pos(k) - 1) : visited[i] = j THEN mapCompiler[j]
        ELSE parsed[j]]

\* The number of places at which p occurs in s.
Count(s, p) == Cardinality({i \in 1..Len(s) : HasPrefixAt(s, i, p)})

\* The names the makefiles of the model refer to.
RefNames == {KeyA, KeyB, KeyC, NameY, NameZ, NameEXTRA}

Placeholders == {Ref(n) : n \in RefNames}

\* The runs of non-whitespace characters of s.
Runs(s) ==
    {SubSeq(s, i, RunEnd(s, i)) :
        i \in {j \in 1..Len(s) : ~IsSpace(s[j]) /\ (j = 1 \/ IsSpace(s[j - 1]))}}

\* Every word of s is one reference $(NAME), NAME holding none of "$", "("
\* and ")", or holds no "$": the references of s are set apart by whitespace.
Separated(s) ==
    \A r \in Runs(s) :
        \/ \A i \in 1..Len(r) : r[i] # "$"
        \/ /\ Len(r) >= 4
           /\ r[1] = "$" /\ r[2] = "(" /\ r[Len(r)] = ")"
           /\ \A i \in 3..(Len(r) - 1) : r[i] \notin {"$", "(", ")"}

(***************************************************************************)
(* C5, C6: the scan (the table it builds is mapCompiler while pc = "scan")                                                     *)
(***************************************************************************)

\* C5: after any number of scanned lines the keys of the table are exactly
\* the keys of the scanned lines that match ^(\S+)\s*=\s*(.+)$, and each key
\* holds the value of the last matching line that has it; the other lines
\* add nothing.
LastWriteWins ==
    pc = "scan" =>
        /\ DOMAIN mapCompiler = {LineKey(lines[i]) : i \in Matching}
        /\ \A k \in DOMAIN mapCompiler :
              mapCompiler[k] =
                  LineValue(lines[Max({i \in Matching : LineKey(lines[i]) = k})])

\* C5 witness: three lines are scanned, two of them give one key different
\* values and one does not match.
LastWriteWinsReached ==
    /\ pc = "scan" /\ scanned = 3
    /\ \E i, j \in Matching :
          /\ i < j
          /\ LineKey(lines[i]) = LineKey(lines[j])
          /\ LineValue(lines[i]) # LineValue(lines[j])
          /\ mapCompiler[LineKey(lines[j])] = LineValue(lines[j])
    /\ \E i \in 1..scanned : ~Matches(lines[i])

\* C6 as stated: every key and every value the scan stores has no leading
\* and no trailing whitespace.
ParsedTrimmed ==
    pc = "scan" =>
        \A k \in DOMAIN mapCompiler :
            NoEdgeSpace(k) /\ NoEdgeSpace(mapCompiler[k])

\* C6 amended: a stored key holds no whitespace; a stored value is not empty
\* and is the end of its line, trailing whitespace included, starting at the
\* first non-whitespace character after the "=" (at the last character when
\* only whitespace follows the "=").
ParsedKeepsTrailing ==
    pc = "scan" =>
        \A k \in DOMAIN mapCompiler :
            LET value == mapCompiler[k]
            IN /\ \A i \in 1..Len(k) : ~IsSpace(k[i])
               /\ value # <<>>
               /\ ~IsSpace(value[1]) \/ Len(value) = 1
               /\ \E i \in 1..scanned :
                     /\ HasPrefixAt(lines[i], 1, k)
                     /\ HasSuffix(lines[i], value)
                     /\ LET before == Len(lines[i]) - Len(value)
                        IN IsSpace(lines[i][before]) \/ lines[i][before] = "="

\* C6 witness: the scan has stored a value that ends with whitespace.
ParsedKeepsTrailingReached ==
    /\ pc = "scan" /\ scanned = Len(lines)
    /\ \E k \in DOMAIN mapCompiler :
          /\ Len(mapCompiler[k]) > 1
          /\ IsSpace(mapCompiler[k][Len(mapCompiler[k])])
          /\ ~IsSpace(mapCompiler[k][1])

(***************************************************************************)
(* C7: the directives                                                      *)
(***************************************************************************)

\* The lines of a text: its parts between line feeds.
RECURSIVE SplitLines(_)
SplitLines(s) ==
    LET nl == {i \in 1..Len(s) : s[i] = "\n"}
    IN IF nl = {} THEN <<s>>
       ELSE <<SubSeq(s, 1, Min(nl) - 1)>>
                \o SplitLines(SubSeq(s, Min(nl) + 1, Len(s)))

\* The value of a directive: what the final table holds for the key, nothing
\* when the key is absent.
Held(k) == IF k \in DOMAIN mapCompiler THEN mapCompiler[k] ELSE <<>>

\* C7: the returned text has exactly 7 lines: CFLAGS from CFLAGS, CXXFLAGS
\* from CXXFLAGS, CXXFLAGS from INCPATH, LDFLAGS from LFLAGS, LDFLAGS from
\* LIBS, then the two fixed lines; a key that is absent gives its directive
\* an empty value.
SevenDirectives ==
    pc = "done" =>
        LET out == SplitLines(cgoFlags)
        IN /\ Len(out) = 7
           /\ out[1] = DirCFLAGS \o Held(KeyCFLAGS)
           /\ out[2] = DirCXXFLAGS \o Held(KeyCXXFLAGS)
           /\ out[3] = DirCXXFLAGS \o Held(KeyINCPATH)
           /\ out[4] = DirLDFLAGS \o Held(KeyLFLAGS)
           /\ out[5] = DirLDFLAGS \o Held(KeyLIBS)
           /\ out[6] = DirCFLAGS \o NoWarn
           /\ out[7] = DirCXXFLAGS \o NoWarn

\* C7 witness: the directives are rendered from a table that has INCPATH and
\* LIBS and has neither CFLAGS nor LFLAGS.
SevenDirectivesReached ==
    /\ pc = "done"
    /\ {KeyINCPATH, KeyLIBS} \subseteq DOMAIN mapCompiler
    /\ KeyCFLAGS \notin DOMAIN mapCompiler
    /\ KeyLFLAGS \notin DOMAIN mapCompiler
    /\ SplitLines(cgoFlags)[1] = DirCFLAGS
    /\ SplitLines(cgoFlags)[5] = DirLDFLAGS \o ValQt

(***************************************************************************)
(* C1, C10: the order of the range loop                                    *)
(***************************************************************************)

ChainTable ==
    [k \in {KeyA, KeyB, KeyC} |->
        IF k = KeyA THEN Ref(KeyB) ELSE IF k = KeyB THEN Ref(KeyC) ELSE <<"x">>]

\* C1 as stated: from {A: "$(B)", B: "$(C)", C: "x"} the pass leaves
\* A = "$(C)", whatever the order of the keys.
ChainStopsAfterOneHop ==
    (parsed = ChainTable /\ KeyA \in Range(visited)) =>
        mapCompiler[KeyA] = Ref(KeyC)

\* The pass run over the keys in one fixed order.
RECURSIVE ResolveInOrder(_, _)
ResolveInOrder(m, keys) ==
    IF keys = {} THEN m
    ELSE LET k == CHOOSE x \in keys : TRUE
         IN ResolveInOrder(MapSet(m, k, ResolveValue(m, k)), keys \ {k})

\* C10 as stated: the final table is a function of the parsed table; every
\* order of the keys gives what one fixed order gives.
OrderIndependent ==
    pc = "done" => mapCompiler = ResolveInOrder(parsed, DOMAIN parsed)

(***************************************************************************)
(* C2: termination                                                         *)
(***************************************************************************)

\* The keys whose parsed value is just a reference to j.
RefersTo(k, j) == TrimSpace(parsed[k]) = Ref(j)

RECURSIVE ReachedFrom(_, _)
ReachedFrom(S, n) ==
    IF n = 0 THEN S
    ELSE ReachedFrom(S \cup {j \in DOMAIN parsed : \E k \in S : RefersTo(k, j)},
                     n - 1)

\* k refers to itself, directly or through other keys.
InCycle(k) ==
    k \in ReachedFrom({j \in DOMAIN parsed : RefersTo(k, j)},
                      Cardinality(DOMAIN parsed))

\* What is left to do: two per line to scan (a line may add a key), one per
\* key to visit, and the steps that end the scan and the pass.
Remaining ==
    2 * (Len(lines) - scanned)
        + Cardinality(DOMAIN mapCompiler \ Range(visited))
        + (IF pc = "scan" THEN 2 ELSE IF pc = "resolve" THEN 1 ELSE 0)

\* A step can be taken: a line is left to scan, the scan can end, a key is
\* left to visit, or the text can be rendered.
CanStep ==
    \/ pc = "scan" /\ scanned < Len(lines)
          /\ Len(FindStringSubmatch(lines[scanned + 1])) \in {0, 3}
    \/ pc = "scan" /\ scanned = Len(lines)
    \/ pc = "resolve" /\ DOMAIN mapCompiler \ Range(visited) # {}
    \/ pc = "resolve" /\ DOMAIN mapCompiler \subseteq Range(visited)

\* C2: the pass ends and never fails: until the text is returned a step can
\* be taken, and every step leaves less to do (no key is added, none is
\* visited again); at the end every key has been visited exactly once, and a
\* key that refers to itself, directly or in a circle, holds a literal
\* placeholder or the empty string.
PassTerminates ==
    /\ [][Remaining' < Remaining]_vars
    /\ [](Remaining >= 0 /\ (pc # "done" => CanStep))
    /\ [](pc = "done" =>
            /\ Remaining = 0
            /\ Range(visited) = DOMAIN mapCompiler
            /\ Len(visited) = Cardinality(DOMAIN mapCompiler)
            /\ \A k \in DOMAIN parsed :
                  InCycle(k) =>
                      mapCompiler[k] = <<>> \/ mapCompiler[k] \in Placeholders)

\* C2 witness: the pass has ended on a table in which A refers to itself or
\* A and B refer to each other.
PassTerminatesReached ==
    /\ pc = "done"
    /\ KeyA \in DOMAIN parsed
    /\ \/ parsed[KeyA] = Ref(KeyA)
       \/ /\ KeyB \in DOMAIN parsed
          /\ parsed[KeyA] = Ref(KeyB)
          /\ parsed[KeyB] = Ref(KeyA)
    /\ mapCompiler[KeyA] \in Placeholders

(***************************************************************************)
(* C3, C4, C8, C9: what one iteration of the loop stores                   *)
(***************************************************************************)

\* The value a visited key had when the loop reached it.
Before(k) == parsed[k]

\* The names of the table the value s refers to.
Referred(s, t) == {n \in DOMAIN t : Contains(s, Ref(n))}

\* C3 as stated: a value that refers only to keys that are absent keeps none
\* of these references, and the pass adds no key to the table.
MissingRefsVanish ==
    /\ pc # "scan" => DOMAIN mapCompiler = DOMAIN parsed
    /\ \A k \in Range(visited) :
          Referred(Before(k), TableAt(k)) = {} =>
              \A n \in RefNames \ DOMAIN parsed :
                  ~Contains(mapCompiler[k], Ref(n))

\* C4 as stated: no value the pass has stored holds " -Wa,-mbig-obj ".
BigObjRemoved ==
    \A k \in Range(visited) : ~Contains(mapCompiler[k], BigObjFlag)

\* Every reference to a key of t replaced by what t holds for it.
RECURSIVE ReplaceEach(_, _, _)
ReplaceEach(s, t, names) ==
    IF names = {} THEN s
    ELSE LET n == CHOOSE x \in names : TRUE
         IN ReplaceEach(Replace(s, Ref(n), t[n]), t, names \ {n})

HasDollar(s) == \E i \in 1..Len(s) : s[i] = "$"

\* C9 as stated: when every reference of a value is to a key of the table
\* whose stored value has no reference of its own, the pass stores the value
\* with each reference replaced by that stored value, whatever is written
\* between the references.
EveryRefReplaced ==
    \A k \in Range(visited) :
        LET t == TableAt(k)
            whole == ReplaceEach(Before(k), t, Referred(Before(k), t))
        IN (/\ \A n \in Referred(Before(k), t) : ~HasDollar(t[n])
            /\ ~HasDollar(whole))
           => mapCompiler[k] = TrimSpace(Replace(whole, BigObjFlag, <<" ">>))

\* The names of the matches of the value k had, in match order.
NamesIn(k) ==
    LET variables == FindAllString(Before(k))
    IN [i \in 1..Len(variables) |->
           SubSeq(variables[i], 3, Len(variables[i]) - 1)]

AllSeparated(k) ==
    /\ Separated(Before(k))
    /\ \A n \in DOMAIN parsed :
          Contains(Before(k), Ref(n)) => Separated(TableAt(k)[n])

====
